---- MODULE Spec2Model ----
(***************************************************************************)
(* Vibe-Code Auditor: the result cache (src/utils/cache_manager.py), its   *)
(* use by the static analyzer (src/analyzers/static_analyzer.py) and the   *)
(* history tracker (src/utils/history_tracker.py), and the selection of    *)
(* the files sent to the AI review (src/analyzers/ai_analyzer.py), the AI  *)
(* review itself and the pipeline that runs them all                       *)
(* (src/core/analyzer_engine.py).                                          *)
(*                                                                         *)
(* Time is an integer clock; cache_ttl is measured in the same unit.  A    *)
(* file's st_mtime is the clock value at which it was last written, so two *)
(* writes at one clock value leave the same st_mtime (the clock has a      *)
(* finite granularity).  A result blob is an opaque value; by the type     *)
(* annotation of save_result it is a str-keyed dict of JSON values, which  *)
(* json.dump / json.load give back unchanged.                              *)
(***************************************************************************)
EXTENDS Integers, Sequences, FiniteSets, TLC

VARIABLES
    clock,       \* datetime.now()
    ttl,         \* CacheManager.cache_ttl
    fs,          \* the project's source files: path -> stat result
    cache_file,  \* <project>/.vibe-auditor-cache/cache.json
    snap,        \* history variable: per key, the arguments of the save that
                 \* wrote the current entry, its time and the stat results it saw
    history_file,\* <project>/.vibe-auditor-history/history.json
    saves,       \* history variable: the save_result calls of the history
                 \* tracker that returned since the history was last empty
    read_only,   \* the two backing files and their directories cannot be
                 \* written (open(..., 'w') and unlink() raise PermissionError)
    project_path,\* AIAnalyzer.project_path: the parts of the absolute path
    tree,        \* the files project_path.rglob('*') yields, in that order
    analyzed_files, \* AIAnalyzer.analyzed_files
    run,         \* history variable: max_files and the number of the calls
                 \* made, while every call on the analyzer so far was
                 \* _collect_code_samples(max_files, skip_analyzed=True)
    writers,     \* the processes writing to a store: where each one is in
                 \* its save_result and what it read
    last         \* history variable: the last call and what it returned

vars == <<clock, ttl, fs, cache_file, snap, history_file, saves, read_only,
          project_path, tree, analyzed_files, run, writers, last>>

\* What the calls on the cache leave alone, and the calls on the history
NotCache == <<history_file, saves, read_only, project_path, tree, analyzed_files,
             run, writers>>
NotHistory == <<ttl, fs, cache_file, snap, read_only, project_path, tree,
               analyzed_files, run, writers>>

\* ---------------------------------------------------------------- bounds

MaxClock == 1
MaxTTL == 1
MaxHashPath == 2
MaxHist == 2
MaxTree == 2

\* ---------------------------------------------------------------- values

Keys == {"static_analysis_deployment", "static_analysis_personal"}
Modes == {"deployment", "personal"}
Results == {"r1", "r2"}
None == "None"
EmptyStr == <<>>
EmptyMap == [x \in {} |-> 0]

\* Paths are ordered as the integers.  cache.json lies inside the project
\* tree; the project's own files are 1, 2, ...
CachePath == 0
\* The project files of Spec and SpecAnalyze: a project with one source file
Sources == {1}

\* The lengths a source file takes: st_size is only ever compared for
\* equality, so a length before and a length after an edit stand for all
Sizes == {1, 2}

Stat(m, s) == [exists |-> TRUE, st_mtime |-> m, st_size |-> s]
NoFile == [exists |-> FALSE, st_mtime |-> 0, st_size |-> 0]

Range(s) == {s[i] : i \in DOMAIN s}

\* Optional[list[Path]]: omitted (None) or a list
Omitted == [given |-> FALSE, list |-> <<>>]
Given(l) == [given |-> TRUE, list |-> l]

\* Duplicate-free lists over a set of paths
ListsOver(S) ==
    {l \in UNION {[1..n -> S] : n \in 0..Cardinality(S)} :
        \A i, j \in DOMAIN l : i # j => l[i] # l[j]}

\* ------------------------------------------------- the file system seen

\* cache.json when it does not exist, and when its text is not JSON
AbsentFile == [state |-> "absent", data |-> EmptyMap, st_mtime |-> 0, st_size |-> 0]
CorruptFile == [state |-> "corrupt", data |-> EmptyMap, st_mtime |-> 0, st_size |-> 1]
\* cache.json when its bytes are not UTF-8 (json.dump writes with
\* ensure_ascii=False, so a write cut inside a character leaves such a file),
\* and when it cannot be opened for reading
UndecodableFile == [state |-> "undecodable", data |-> EmptyMap, st_mtime |-> 0, st_size |-> 1]
UnreadableFile == [state |-> "unreadable", data |-> EmptyMap, st_mtime |-> 0, st_size |-> 1]

\* stat() of cache.json
CacheStat ==
    IF cache_file.state = "absent" THEN NoFile
    ELSE Stat(cache_file.st_mtime, cache_file.st_size)

\* stat() of every path of the project tree
Tree == [p \in DOMAIN fs \cup {CachePath} |-> IF p = CachePath THEN CacheStat ELSE fs[p]]

\* history.json when it does not exist, when its text is not JSON, when its
\* bytes are not UTF-8 and when it cannot be opened for reading
AbsentHistory == [state |-> "absent", data |-> <<>>]
CorruptHistory == [state |-> "corrupt", data |-> <<>>]
UndecodableHistory == [state |-> "undecodable", data |-> <<>>]
UnreadableHistory == [state |-> "unreadable", data |-> <<>>]

\* run when no call was made on the analyzer yet, and once the calls made
\* are not all _collect_code_samples(max_files, True) with one max_files
FreshRun == [max_files |-> 0, calls |-> 0, only |-> TRUE]
NoRun == [max_files |-> 0, calls |-> 0, only |-> FALSE]

\* The directory the project lives in
ProjectRoot == <<"home", "user", "project">>

\* The processes that may write to one project's stores at the same time;
\* none of them is inside a save_result
Writers == {"w1", "w2"}
NoWriters == [w \in Writers |-> [pc |-> "idle"]]

\* ------------------------------------------------------ CacheManager

\* sorted(files): ascending by path
RECURSIVE sorted(_)
sorted(files) ==
    IF files = <<>> THEN <<>>
    ELSE LET i == CHOOSE i \in DOMAIN files : \A j \in DOMAIN files : files[i] <= files[j]
         IN  <<files[i]>> \o sorted(SubSeq(files, 1, i - 1) \o SubSeq(files, i + 1, Len(files)))

\* hashlib.sha256(...).hexdigest(): a 64-character digest, taken as injective;
\* never equal to the empty string
sha256(str) == <<"sha256", str>>

\* f"{file_path}:{stat.st_mtime}:{stat.st_size}" for each file that can be
\* stat'ed, in sorted order; '|'.join of these is the sequence itself
RECURSIVE combined(_, _)
combined(files, st) ==
    IF files = <<>> THEN <<>>
    ELSE LET file_path == Head(files)
             rest == combined(Tail(files), st)
         IN  IF file_path \in DOMAIN st /\ st[file_path].exists
             THEN <<(<<file_path, st[file_path].st_mtime, st[file_path].st_size>>)>> \o rest
             ELSE rest

\* Mutant: the files are taken in the order given
compute_project_hash_unsorted(files, st) == sha256(combined(files, st))

compute_project_hash(files, st) == sha256(combined(sorted(files), st))

\* _load_cache: {} when the file is absent, cannot be opened (OSError) or is
\* not JSON (JSONDecodeError)
load_cache ==
    IF cache_file.state = "ok" THEN cache_file.data ELSE EmptyMap

\* The exception _load_cache / _load_history lets through: json.load decodes
\* the bytes before it parses them, and UnicodeDecodeError is neither a
\* JSONDecodeError nor an OSError
LoadError(file) ==
    IF file.state = "undecodable" THEN "UnicodeDecodeError" ELSE None

\* Mutant: the failure is logged and not re-raised
WriteError_swallowed == None

\* The exception _save_cache / _save_history logs and re-raises
WriteError == IF read_only THEN "PermissionError" ELSE None

\* Length of the text json.dump writes: grows with the entries and with the
\* project_hash fields they carry
FileSize(cache_data) ==
    1 + Cardinality(DOMAIN cache_data)
      + Cardinality({k \in DOMAIN cache_data : "project_hash" \in DOMAIN cache_data[k]})

\* _save_cache: the whole file is rewritten now
save_cache(cache_data, now) ==
    [state |-> "ok", data |-> cache_data, st_mtime |-> now, st_size |-> FileSize(cache_data)]

\* if project_files:
Truthy(project_files) == project_files.given /\ project_files.list # <<>>

\* entry.get('project_hash', '')
EntryHash(entry) ==
    IF "project_hash" \in DOMAIN entry THEN entry.project_hash ELSE EmptyStr

\* Mutant: an entry whose age equals the TTL counts as expired
Expired_at_ttl(entry, now) == now - entry.timestamp >= ttl

\* datetime.now() - cached_time > self.cache_ttl
Expired(entry, now) == now - entry.timestamp > ttl

\* Mutant: only the TTL is checked, never the project hash
get_cached_result_ttl_only(cache_key, project_files) ==
    LET cache_data == load_cache IN
    IF cache_key \notin DOMAIN cache_data THEN None
    ELSE IF cache_data[cache_key].timestamp + ttl < clock THEN None
         ELSE cache_data[cache_key].result

get_cached_result(cache_key, project_files) ==
    LET cache_data == load_cache IN
    IF cache_key \notin DOMAIN cache_data THEN None
    ELSE LET entry == cache_data[cache_key] IN
         IF Expired(entry, clock) THEN None
         ELSE IF Truthy(project_files)
                 /\ compute_project_hash(project_files.list, Tree) # EntryHash(entry)
              THEN None
              ELSE entry.result

\* The entry save_result builds
NewEntry(result, project_files, now) ==
    IF Truthy(project_files)
    THEN [timestamp |-> now, result |-> result,
          project_hash |-> compute_project_hash(project_files.list, Tree)]
    ELSE [timestamp |-> now, result |-> result]

\* cache_data[cache_key] = entry
Put(cache_data, cache_key, entry) ==
    [k \in DOMAIN cache_data \cup {cache_key} |->
        IF k = cache_key THEN entry ELSE cache_data[k]]

\* del cache_data[key] for every key of a set
Del(cache_data, keys) == [k \in DOMAIN cache_data \ keys |-> cache_data[k]]

\* Mutant: an entry already stored under the key is kept (setdefault)
save_result_keep(cache_key, result, project_files, now) ==
    IF cache_key \in DOMAIN load_cache
    THEN save_cache(load_cache, now)
    ELSE save_cache(Put(load_cache, cache_key, NewEntry(result, project_files, now)), now)

\* save_result: the file it leaves
save_result(cache_key, result, project_files, now) ==
    save_cache(Put(load_cache, cache_key, NewEntry(result, project_files, now)), now)

\* Mutant: the whole map is emptied instead of one key deleted
invalidate_clear(cache_key) ==
    IF cache_key \in DOMAIN load_cache
    THEN save_cache(EmptyMap, clock)
    ELSE cache_file

\* invalidate(cache_key): the file it leaves
invalidate(cache_key) ==
    LET cache_data == load_cache IN
    IF cache_key \in DOMAIN cache_data
    THEN save_cache(Del(cache_data, {cache_key}), clock)
    ELSE cache_file

\* Mutant: the file is left in place
invalidate_all_noop == cache_file

\* invalidate(): cache_file.unlink()
invalidate_all == AbsentFile

get_cache_stats ==
    LET cache_data == load_cache IN
    [total_entries |-> Cardinality(DOMAIN cache_data),
     cache_file_size |-> CacheStat.st_size,
     entries |-> {[key |-> k,
                   timestamp |-> cache_data[k].timestamp,
                   age_hours |-> clock - cache_data[k].timestamp,
                   is_expired |-> Expired(cache_data[k], clock)] : k \in DOMAIN cache_data}]

\* cleanup_expired
expired_keys == {k \in DOMAIN load_cache : Expired(load_cache[k], clock)}

cleanup_expired ==
    IF expired_keys # {}
    THEN save_cache(Del(load_cache, expired_keys), clock)
    ELSE cache_file

\* ---------------------------------------------------- StaticAnalyzer

\* cache_key = f"static_analysis_{self.mode}"
CacheKey(mode) ==
    IF mode = "deployment" THEN "static_analysis_deployment" ELSE "static_analysis_personal"

RECURSIVE SeqOf(_)
SeqOf(S) == IF S = {} THEN <<>> ELSE LET x == CHOOSE x \in S : TRUE IN <<x>> \o SeqOf(S \ {x})

\* [f for f in self.project_path.rglob('*') if f.is_file()]: every file under
\* the project directory, cache.json included once it exists
rglob_files == Given(SeqOf({p \in DOMAIN Tree : Tree[p].exists}))

\* ------------------------------------------------------------- actions

NoSnap == [files |-> Omitted, stats |-> EmptyMap, result |-> None, at |-> 0]
SnapOf(result, project_files, now) ==
    [files |-> project_files,
     stats |-> [p \in Range(project_files.list) |-> Tree[p]],
     result |-> result,
     at |-> now]

\* snap after the store changed from whatever it was to new_file, the entry
\* of `written` (a set of at most one key) being new
SnapAfter(new_file, written, result, project_files, now) ==
    [k \in Keys |->
        IF k \in written THEN SnapOf(result, project_files, now)
        ELSE IF new_file.state = "ok" /\ k \in DOMAIN new_file.data
                /\ k \in DOMAIN load_cache /\ new_file.data[k] = load_cache[k]
             THEN snap[k]
             ELSE NoSnap]

FileArgs == {Omitted} \cup {Given(l) : l \in ListsOver(DOMAIN fs)}

\* Mutant: a get that finds the entry expired deletes it
Get_purging(cache_key, project_files) ==
    LET purge == cache_key \in DOMAIN load_cache /\ Expired(load_cache[cache_key], clock)
    IN  /\ last' = [op |-> "get", key |-> cache_key, files |-> project_files,
                    out |-> get_cached_result(cache_key, project_files),
                    raised |-> None, follows_save |-> None]
        /\ cache_file' = IF purge THEN save_cache(Del(load_cache, {cache_key}), clock)
                         ELSE cache_file
        /\ snap' = IF purge THEN [snap EXCEPT ![cache_key] = NoSnap] ELSE snap
        /\ UNCHANGED <<clock, ttl, fs, NotCache>>

\* In the records of `last`, raised is the exception the call ended with
\* (None when it returned) and out is what it returned.

\* get_cached_result(cache_key, project_files).  follows_save: the value of the
\* save_result call made just before with the same key and file list, if any
Get(cache_key, project_files) ==
    LET raised == LoadError(cache_file) IN
    /\ last' = [op |-> "get", key |-> cache_key, files |-> project_files,
                out |-> IF raised = None
                        THEN get_cached_result(cache_key, project_files) ELSE None,
                raised |-> raised,
                follows_save |->
                    IF last.op = "save" /\ last.key = cache_key /\ last.raised = None
                       /\ snap[cache_key].files = project_files
                    THEN last.out ELSE None]
    /\ UNCHANGED <<clock, ttl, fs, cache_file, snap, NotCache>>

\* save_result(cache_key, result, project_files).  out: the value given
Save(cache_key, result, project_files) ==
    LET raised == IF LoadError(cache_file) # None THEN LoadError(cache_file)
                  ELSE WriteError
    IN  /\ cache_file' = IF raised = None
                         THEN save_result(cache_key, result, project_files, clock)
                         ELSE cache_file
        /\ snap' = IF raised = None
                   THEN SnapAfter(cache_file', {cache_key}, result, project_files, clock)
                   ELSE snap
        /\ last' = [op |-> "save", key |-> cache_key, out |-> result, raised |-> raised]
        /\ UNCHANGED <<clock, ttl, fs, NotCache>>

\* invalidate(cache_key).  had: whether the key was stored before the call
Invalidate(cache_key) ==
    LET raised == IF LoadError(cache_file) # None THEN LoadError(cache_file)
                  ELSE IF cache_key \in DOMAIN load_cache THEN WriteError
                  ELSE None
    IN  /\ cache_file' = IF raised = None THEN invalidate(cache_key) ELSE cache_file
        /\ snap' = IF raised = None
                   THEN SnapAfter(cache_file', {}, None, Omitted, clock) ELSE snap
        /\ last' = [op |-> "invalidate", key |-> cache_key,
                    had |-> cache_key \in DOMAIN load_cache, raised |-> raised]
        /\ UNCHANGED <<clock, ttl, fs, NotCache>>

\* invalidate().  had: the number of entries stored before the call
InvalidateAll ==
    LET raised == IF cache_file.state # "absent" THEN WriteError ELSE None
    IN  /\ cache_file' = IF raised = None THEN invalidate_all ELSE cache_file
        /\ snap' = IF raised = None
                   THEN SnapAfter(cache_file', {}, None, Omitted, clock) ELSE snap
        /\ last' = [op |-> "invalidate_all", had |-> Cardinality(DOMAIN load_cache),
                    raised |-> raised]
        /\ UNCHANGED <<clock, ttl, fs, NotCache>>

Stats ==
    LET raised == LoadError(cache_file) IN
    /\ last' = [op |-> "stats", raised |-> raised,
                out |-> IF raised = None THEN get_cache_stats
                        ELSE [total_entries |-> 0, cache_file_size |-> 0, entries |-> {}]]
    /\ UNCHANGED <<clock, ttl, fs, cache_file, snap, NotCache>>

\* cleanup_expired().  out: the number it returns
Cleanup ==
    LET raised == IF LoadError(cache_file) # None THEN LoadError(cache_file)
                  ELSE IF expired_keys # {} THEN WriteError
                  ELSE None
    IN  /\ cache_file' = IF raised = None THEN cleanup_expired ELSE cache_file
        /\ snap' = IF raised = None
                   THEN SnapAfter(cache_file', {}, None, Omitted, clock) ELSE snap
        /\ last' = [op |-> "cleanup", raised |-> raised,
                    expired |-> Cardinality(expired_keys),
                    out |-> IF raised = None THEN Cardinality(expired_keys) ELSE 0]
        /\ UNCHANGED <<clock, ttl, fs, NotCache>>

\* StaticAnalyzer.analyze with use_cache=True.  On a miss the tools run (their
\* output is `result`, and they take d clock units) and the result is saved.
\* follows_analyze: the call made just before was analyze in the same mode.
\* Nothing in analyze catches what the cache manager raises
Analyze(mode, result, d) ==
    LET cache_key == CacheKey(mode)
        cached_result == get_cached_result(cache_key, rglob_files)
        again == last.op = "analyze" /\ last.key = cache_key
    IN  IF LoadError(cache_file) # None
        THEN /\ last' = [op |-> "analyze", key |-> cache_key, hit |-> FALSE,
                         out |-> None, raised |-> LoadError(cache_file),
                         follows_analyze |-> again]
             /\ UNCHANGED <<clock, ttl, fs, cache_file, snap, NotCache>>
        ELSE IF cached_result # None
        THEN /\ last' = [op |-> "analyze", key |-> cache_key, hit |-> TRUE,
                         out |-> cached_result, raised |-> None,
                         follows_analyze |-> again]
             /\ UNCHANGED <<clock, ttl, fs, cache_file, snap, NotCache>>
        ELSE /\ clock + d <= MaxClock
             /\ clock' = clock + d
             /\ cache_file' = IF WriteError = None
                              THEN save_result(cache_key, result, rglob_files, clock + d)
                              ELSE cache_file
             /\ snap' = IF WriteError = None
                        THEN SnapAfter(cache_file', {cache_key}, result, rglob_files, clock + d)
                        ELSE snap
             /\ last' = [op |-> "analyze", key |-> cache_key, hit |-> FALSE,
                         out |-> IF WriteError = None THEN result ELSE None,
                         raised |-> WriteError, follows_analyze |-> again]
             /\ UNCHANGED <<ttl, fs, NotCache>>

\* The environment: time passes; a source file is rewritten
Tick ==
    /\ clock < MaxClock
    /\ clock' = clock + 1
    /\ last' = [op |-> "tick"]
    /\ UNCHANGED <<ttl, fs, cache_file, snap, NotCache>>

Touch(p, size) ==
    /\ fs' = [fs EXCEPT ![p] = Stat(clock, size)]
    /\ last' = [op |-> "touch"]
    /\ UNCHANGED <<clock, ttl, cache_file, snap, NotCache>>

\* After CacheManager.__init__: the cache directory exists; cache.json is
\* absent, or is a leftover that does not parse
Init ==
    /\ clock = 0
    /\ ttl \in 0..MaxTTL
    /\ fs = [p \in Sources |-> Stat(0, 1)]
    /\ cache_file \in {AbsentFile, CorruptFile}
    /\ snap = [k \in Keys |-> NoSnap]
    /\ history_file = AbsentHistory
    /\ saves = 0
    /\ read_only = FALSE
    /\ tree = <<>>
    /\ analyzed_files = {}
    /\ run = NoRun
    /\ project_path = ProjectRoot
    /\ writers = NoWriters
    /\ last = [op |-> "init"]

Next ==
    \/ \E k \in Keys, f \in FileArgs : Get(k, f)
    \/ \E k \in Keys, r \in Results, f \in FileArgs : Save(k, r, f)
    \/ \E k \in Keys : Invalidate(k)
    \/ InvalidateAll
    \/ Stats
    \/ Cleanup
    \/ Tick
    \/ \E p \in DOMAIN fs, s \in Sizes : Touch(p, s)

\* The CacheManager driven directly by a caller
Spec == Init /\ [][Next]_vars

\* The CacheManager driven by StaticAnalyzer.analyze; InvalidateAll is the
\* CLI's --clear-cache (AnalyzerEngine.clear_cache)
NextAnalyze ==
    \/ \E m \in Modes, r \in Results, d \in {0, 1} : Analyze(m, r, d)
    \/ InvalidateAll
    \/ Tick
    \/ \E p \in DOMAIN fs, s \in Sizes : Touch(p, s)

SpecAnalyze == Init /\ [][NextAnalyze]_vars

\* _compute_project_hash called on a list of the project's files
Hash(files) ==
    /\ last' = [op |-> "hash", files |-> files, out |-> compute_project_hash(files, Tree)]
    /\ UNCHANGED <<clock, ttl, fs, cache_file, snap, NotCache>>

\* The environment: a source file is deleted
Remove(p) ==
    /\ fs' = [fs EXCEPT ![p] = NoFile]
    /\ last' = [op |-> "remove"]
    /\ UNCHANGED <<clock, ttl, cache_file, snap, NotCache>>

InitHash ==
    /\ clock = 0
    /\ ttl = 0
    /\ fs = [p \in 1..MaxHashPath |-> Stat(0, 1)]
    /\ cache_file = AbsentFile
    /\ snap = [k \in Keys |-> NoSnap]
    /\ history_file = AbsentHistory
    /\ saves = 0
    /\ read_only = FALSE
    /\ tree = <<>>
    /\ analyzed_files = {}
    /\ run = NoRun
    /\ project_path = ProjectRoot
    /\ writers = NoWriters
    /\ last = [op |-> "init"]

NextHash ==
    \/ \E l \in ListsOver(DOMAIN fs) : Hash(l)
    \/ \E p \in DOMAIN fs, s \in Sizes : Touch(p, s)
    \/ \E p \in DOMAIN fs : Remove(p)
    \/ Tick

\* The project hash computed over a project of MaxHashPath files
SpecHash == InitHash /\ [][NextHash]_vars

\* ---------------------------------------------------- HistoryTracker

\* d.get(key, default)
GetOr(d, key, default) == IF key \in DOMAIN d THEN d[key] ELSE default

\* ai_results=None
AiNone == [is_none |-> TRUE]

\* A 'summary' as the analyzers build it
Summary(t, c, w, i) ==
    [total_issues |-> t, by_severity |-> [critical |-> c, warning |-> w, info |-> i]]

\* The static results a caller passes: without a summary, with a summary
\* whose counts add up, and with total_issues set apart from by_severity (as
\* test_get_trend_data_improving does)
StaticInputs ==
    {EmptyMap, [summary |-> Summary(1, 1, 0, 0)], [summary |-> Summary(2, 0, 1, 0)]}

\* The AI results a caller passes: None, or results with a summary
AiInputs == {AiNone, [summary |-> Summary(1, 0, 0, 1)]}

\* results.get('summary', {}).get('total_issues', 0)
TotalIssues(results) == GetOr(GetOr(results, "summary", EmptyMap), "total_issues", 0)

\* `... if ai_results else ...`: None and {} are false
AiGiven(ai_results) == ai_results # AiNone /\ DOMAIN ai_results # {}

\* Mutant: the AI counts are left out
aggregate_severity_static_only(static_results, ai_results) ==
    LET static_severity ==
            GetOr(GetOr(static_results, "summary", EmptyMap), "by_severity", EmptyMap)
    IN  [critical |-> GetOr(static_severity, "critical", 0),
         warning |-> GetOr(static_severity, "warning", 0),
         info |-> GetOr(static_severity, "info", 0)]

\* _aggregate_severity
aggregate_severity(static_results, ai_results) ==
    LET static_severity ==
            GetOr(GetOr(static_results, "summary", EmptyMap), "by_severity", EmptyMap)
        ai_severity ==
            IF AiGiven(ai_results)
            THEN GetOr(GetOr(ai_results, "summary", EmptyMap), "by_severity", EmptyMap)
            ELSE EmptyMap
    IN  [critical |-> GetOr(static_severity, "critical", 0) + GetOr(ai_severity, "critical", 0),
         warning |-> GetOr(static_severity, "warning", 0) + GetOr(ai_severity, "warning", 0),
         info |-> GetOr(static_severity, "info", 0) + GetOr(ai_severity, "info", 0)]

\* The entry save_result builds
HistoryEntry(mode, static_results, ai_results, now) ==
    LET ai_issues == IF AiGiven(ai_results) THEN TotalIssues(ai_results) ELSE 0 IN
    [timestamp |-> now,
     mode |-> mode,
     summary |-> [total_issues |-> TotalIssues(static_results) + ai_issues,
                  static_issues |-> TotalIssues(static_results),
                  ai_issues |-> ai_issues,
                  by_severity |-> aggregate_severity(static_results, ai_results)]]

\* _load_history: [] when the file is absent, cannot be opened (OSError) or is
\* not JSON (JSONDecodeError)
load_history ==
    IF history_file.state = "ok" THEN history_file.data ELSE <<>>

\* _save_history: the whole file is rewritten
save_history(history) == [state |-> "ok", data |-> history]

\* Mutant: the stored history is not loaded first
history_save_result_fresh(mode, static_results, ai_results, now) ==
    save_history(<<HistoryEntry(mode, static_results, ai_results, now)>>)

\* HistoryTracker.save_result: the file it leaves
history_save_result(mode, static_results, ai_results, now) ==
    save_history(Append(load_history, HistoryEntry(mode, static_results, ai_results, now)))

Reverse(s) == [i \in 1..Len(s) |-> s[Len(s) + 1 - i]]

\* list.sort(key=lambda x: x['timestamp']): stable, so entries with one
\* timestamp keep the order they have in the list
RECURSIVE sort_by_timestamp(_)
sort_by_timestamp(history) ==
    IF history = <<>> THEN <<>>
    ELSE LET n == Len(history)
             e == history[n]
             front == sort_by_timestamp(SubSeq(history, 1, n - 1))
             k == Cardinality({i \in DOMAIN front : front[i].timestamp <= e.timestamp})
         IN  SubSeq(front, 1, k) \o <<e>> \o SubSeq(front, k + 1, n - 1)

\* list.sort(key=..., reverse=True): the list is reversed, sorted and reversed
\* again, so entries with one timestamp still keep their order
sort_by_timestamp_reverse(history) == Reverse(sort_by_timestamp(Reverse(history)))

\* limit=None, and limit=n
NoLimit == [given |-> FALSE, n |-> 0]
Limit(n) == [given |-> TRUE, n |-> n]

\* history[:n]
Slice(history, n) ==
    IF n >= 0 THEN SubSeq(history, 1, IF n < Len(history) THEN n ELSE Len(history))
    ELSE SubSeq(history, 1, IF Len(history) + n > 0 THEN Len(history) + n ELSE 0)

get_history(limit) ==
    LET history == sort_by_timestamp_reverse(load_history) IN
    IF limit.given /\ limit.n # 0 THEN Slice(history, limit.n) ELSE history

\* round(a / b, 0) for b > 0: to the nearest integer, a half to the even one
Round(a, b) ==
    LET q == a \div b
        r == a % b
    IN  IF 2 * r < b THEN q
        ELSE IF 2 * r > b THEN q + 1
        ELSE IF q % 2 = 0 THEN q ELSE q + 1

\* Mutant: the sign of the change is read the other way round
trend_of_flipped(change) ==
    IF change > 0 THEN "improving" ELSE IF change < 0 THEN "declining" ELSE "stable"

\* if change < 0: ... elif change > 0: ... else: ...
trend_of(change) ==
    IF change < 0 THEN "improving" ELSE IF change > 0 THEN "declining" ELSE "stable"

\* get_trend_data.  change_percent is in tenths of a percent
get_trend_data ==
    IF load_history = <<>>
    THEN [total_runs |-> 0, trend |-> "no_data", current_issues |-> 0,
          previous_issues |-> 0, change |-> 0]
    ELSE LET history == sort_by_timestamp(load_history)
             total_runs == Len(history)
             current == history[total_runs]
             current_issues == current.summary.total_issues
             previous_issues ==
                 IF total_runs > 1 THEN history[total_runs - 1].summary.total_issues
                 ELSE current_issues
             change == current_issues - previous_issues
         IN  [total_runs |-> total_runs,
              trend |-> trend_of(change),
              current_issues |-> current_issues,
              previous_issues |-> previous_issues,
              change |-> change,
              change_percent |->
                  IF previous_issues > 0 THEN Round(change * 1000, previous_issues)
                  ELSE 0,
              timeline |->
                  [i \in 1..total_runs |->
                      [timestamp |-> history[i].timestamp,
                       total_issues |-> history[i].summary.total_issues,
                       critical |-> history[i].summary.by_severity.critical,
                       warning |-> history[i].summary.by_severity.warning,
                       info |-> history[i].summary.by_severity.info]]]

\* Mutant: the file is left in place
clear_history_noop == history_file

\* clear_history: history_file.unlink()
clear_history == AbsentHistory

\* HistoryTracker.save_result(mode, static_results, ai_results).  entry: the
\* entry it built
HSave(mode, static_results, ai_results) ==
    LET raised == IF LoadError(history_file) # None THEN LoadError(history_file)
                  ELSE WriteError
    IN  /\ history_file' = IF raised = None
                           THEN history_save_result(mode, static_results, ai_results, clock)
                           ELSE history_file
        /\ saves' = IF raised = None THEN saves + 1 ELSE saves
        /\ last' = [op |-> "hsave", static |-> static_results, ai |-> ai_results,
                    entry |-> HistoryEntry(mode, static_results, ai_results, clock),
                    raised |-> raised]
        /\ UNCHANGED <<clock, NotHistory>>

\* The call made just before was a clear_history that removed entries
AfterClear == last.op = "hclear" /\ last.raised = None /\ last.had > 0

\* get_history(limit)
HGet(limit) ==
    LET raised == LoadError(history_file) IN
    /\ last' = [op |-> "hget", limit |-> limit, raised |-> raised,
                after_clear |-> AfterClear,
                out |-> IF raised = None THEN get_history(limit) ELSE <<>>]
    /\ UNCHANGED <<clock, history_file, saves, NotHistory>>

\* get_trend_data()
HTrend ==
    LET raised == LoadError(history_file) IN
    /\ last' = [op |-> "htrend", raised |-> raised, after_clear |-> AfterClear,
                out |-> IF raised = None THEN get_trend_data ELSE [total_runs |-> 0]]
    /\ UNCHANGED <<clock, history_file, saves, NotHistory>>

\* clear_history().  had: the number of entries stored before the call
HClear ==
    LET raised == IF history_file.state # "absent" THEN WriteError ELSE None IN
    /\ history_file' = IF raised = None THEN clear_history ELSE history_file
    /\ saves' = IF raised = None THEN 0 ELSE saves
    /\ last' = [op |-> "hclear", had |-> Len(load_history), raised |-> raised]
    /\ UNCHANGED <<clock, NotHistory>>

LimitArgs == {NoLimit} \cup {Limit(n) : n \in 0..MaxHist}

\* After HistoryTracker.__init__: the history directory exists; history.json is
\* absent, or is a leftover that does not parse
InitHistory ==
    /\ clock = 0
    /\ ttl = 0
    /\ fs = [p \in Sources |-> Stat(0, 1)]
    /\ cache_file = AbsentFile
    /\ snap = [k \in Keys |-> NoSnap]
    /\ history_file \in {AbsentHistory, CorruptHistory}
    /\ saves = 0
    /\ read_only = FALSE
    /\ tree = <<>>
    /\ analyzed_files = {}
    /\ run = NoRun
    /\ project_path = ProjectRoot
    /\ writers = NoWriters
    /\ last = [op |-> "init"]

NextHistory ==
    \/ \E m \in Modes, s \in StaticInputs, a \in AiInputs :
          Len(load_history) < MaxHist /\ HSave(m, s, a)
    \/ \E l \in LimitArgs : HGet(l)
    \/ HTrend
    \/ HClear
    \/ Tick

\* The HistoryTracker driven directly by a caller
SpecHistory == InitHistory /\ [][NextHistory]_vars

\* The environment: the permissions of the two stores change; a backing file
\* is damaged (a write cut short, a disk error, a permission change)
Chmod(ro) ==
    /\ read_only' = ro
    /\ last' = [op |-> "chmod"]
    /\ UNCHANGED <<clock, ttl, fs, cache_file, snap, history_file, saves,
                   project_path, tree, analyzed_files, run, writers>>

DamageCache(file) ==
    /\ cache_file.state # "absent"
    /\ cache_file' = file
    /\ snap' = [k \in Keys |-> NoSnap]
    /\ last' = [op |-> "damage"]
    /\ UNCHANGED <<clock, ttl, fs, NotCache>>

DamageHistory(file) ==
    /\ history_file.state # "absent"
    /\ history_file' = file
    /\ saves' = 0
    /\ last' = [op |-> "damage"]
    /\ UNCHANGED <<clock, NotHistory>>

InitFaults ==
    /\ clock = 0
    /\ ttl \in 0..MaxTTL
    /\ fs = [p \in Sources |-> Stat(0, 1)]
    /\ cache_file = AbsentFile
    /\ snap = [k \in Keys |-> NoSnap]
    /\ history_file = AbsentHistory
    /\ saves = 0
    /\ read_only = FALSE
    /\ tree = <<>>
    /\ analyzed_files = {}
    /\ run = NoRun
    /\ project_path = ProjectRoot
    /\ writers = NoWriters
    /\ last = [op |-> "init"]

NextFaults ==
    \/ \E k \in Keys : Get(k, Omitted)
    \/ \E k \in Keys : Save(k, "r1", Omitted)
    \/ \E k \in Keys : Invalidate(k)
    \/ InvalidateAll
    \/ Cleanup
    \/ Len(load_history) < MaxHist /\ HSave("deployment", [summary |-> Summary(1, 1, 0, 0)], AiNone)
    \/ HGet(NoLimit)
    \/ HTrend
    \/ HClear
    \/ Tick
    \/ \E ro \in BOOLEAN : Chmod(ro)
    \/ \E f \in {CorruptFile, UndecodableFile, UnreadableFile} : DamageCache(f)
    \/ \E f \in {CorruptHistory, UndecodableHistory, UnreadableHistory} : DamageHistory(f)

\* Both stores of one project, with a file system that fails
SpecFaults == InitFaults /\ [][NextFaults]_vars

\* -------------------------------------------------------- AIAnalyzer

\* A file name under the project: its path relative to the project, its
\* suffix, and what the pattern lists find in its lowercase name: high and
\* medium say whether any pattern of the list occurs in it, n_low counts the
\* low-priority patterns that occur in it
high_priority_patterns ==
    {"main", "app", "index", "server", "client", "config", "settings", "router",
     "controller", "service", "manager", "handler", "api"}
medium_priority_patterns == {"model", "view", "component", "module"}
low_priority_patterns == {"util", "helper", "common", "test", "spec"}

\* A file name: the parts of its path below the project, its suffix, and
\* the patterns that occur in file_path.name.lower()
File(path, suffix, occurs) == [path |-> path, suffix |-> suffix, occurs |-> occurs]

Names ==
    {File(<<"src", "server.py">>, ".py", {"server"}),
     File(<<"src", "deep", "nested", "folder", "util.py">>, ".py", {"util"}),
     File(<<"app.py">>, ".py", {"app"}),
     File(<<"main.py">>, ".py", {"main"}),
     File(<<"node_modules", "index.js">>, ".js", {"index"})}

\* What a file holds: whether open() succeeds, its number of lines, whether
\* the last line ends with a newline, whether it is white space only, the
\* matches of the function, class and import patterns within its first 500
\* lines, and the matches of the function patterns in lines 501 to 1000
Content(id, readable, nlines, newline_end, blank, funcs, classes, imports, funcs_late) ==
    [id |-> id, readable |-> readable, nlines |-> nlines, newline_end |-> newline_end,
     blank |-> blank, funcs |-> funcs, classes |-> classes, imports |-> imports,
     funcs_late |-> funcs_late]

Contents ==
    {Content("small", TRUE, 3, TRUE, FALSE, 1, 0, 1, 0),
     Content("dense", TRUE, 60, TRUE, FALSE, 40, 2, 5, 0),
     Content("blank", TRUE, 1, TRUE, TRUE, 0, 0, 0, 0),
     Content("unreadable", FALSE, 3, TRUE, FALSE, 1, 0, 1, 0)}

exclude_dirs ==
    {"node_modules", "venv", ".venv", ".git", "__pycache__", "build", "dist",
     "target", "vendor"}

file_extensions ==
    {".py", ".js", ".jsx", ".ts", ".tsx", ".go", ".rs", ".java", ".kt", ".kts",
     ".php", ".cs", ".rb", ".swift"}

\* str(file_path.relative_to(self.project_path))
relative_path(f) == f.file.path

\* any(pattern in filename_lower for pattern in self.high_priority_patterns)
is_high_priority(f) == f.file.occurs \cap high_priority_patterns # {}

\* max_lines = 1000 if is_high_priority else 500
max_lines(f) == IF is_high_priority(f) THEN 1000 ELSE 500

\* f.readlines()[:max_lines]: the number of lines kept
lines_read(f) ==
    IF f.content.nlines < max_lines(f) THEN f.content.nlines ELSE max_lines(f)

\* len(content.split('\n')): one more than the lines kept when the last of
\* them ends with a newline
line_count(f) ==
    IF f.content.nlines > max_lines(f) \/ f.content.newline_end
    THEN lines_read(f) + 1 ELSE lines_read(f)

\* 1. Filename pattern scoring: the loops over the high and the medium
\* patterns stop at the first match, the loop over the low patterns does not
name_score(f) ==
    (IF f.file.occurs \cap high_priority_patterns # {} THEN 100 ELSE 0)
    + (IF f.file.occurs \cap medium_priority_patterns # {} THEN 50 ELSE 0)
    - 30 * Cardinality(f.file.occurs \cap low_priority_patterns)

\* 2. Path depth
depth_score(f) ==
    LET depth == Len(relative_path(f))
    IN  IF 50 - depth * 10 > 0 THEN 50 - depth * 10 ELSE 0

\* Mutant: the matches are counted in the whole file
complexity_score_whole_file(f) ==
    (f.content.funcs + f.content.funcs_late) * 5
    + f.content.classes * 10 + f.content.imports * 3

\* 3. Complexity analysis, of the lines kept
complexity_score(f) ==
    (f.content.funcs + IF lines_read(f) > 500 THEN f.content.funcs_late ELSE 0) * 5
    + f.content.classes * 10 + f.content.imports * 3

\* 4. File size
size_score(f) ==
    LET n == line_count(f)
    IN  IF is_high_priority(f)
        THEN IF 50 <= n /\ n <= 1000 THEN 20 ELSE IF n > 1000 THEN 10 ELSE 0
        ELSE IF 50 <= n /\ n <= 500 THEN 20 ELSE IF n > 500 THEN 10 ELSE 0

\* _calculate_file_score
calculate_file_score(f) ==
    name_score(f) + depth_score(f) + complexity_score(f) + size_score(f)

\* Mutant: the analyzed set is never consulted
Candidate_never_skips(f, skip_analyzed) ==
    /\ ~ \E part \in Range(project_path \o f.file.path) : part \in exclude_dirs
    /\ f.file.suffix \in file_extensions
    /\ f.content.readable
    /\ ~ f.content.blank

\* Mutant: the analyzed set is consulted whatever skip_analyzed says
Candidate_always_skips(f, skip_analyzed) ==
    /\ ~ \E part \in Range(project_path \o f.file.path) : part \in exclude_dirs
    /\ f.file.suffix \in file_extensions
    /\ relative_path(f) \notin analyzed_files
    /\ f.content.readable
    /\ ~ f.content.blank

\* The tests a file passes to be scored
Candidate(f, skip_analyzed) ==
    /\ ~ \E part \in Range(project_path \o f.file.path) : part \in exclude_dirs
    /\ f.file.suffix \in file_extensions
    /\ ~ (skip_analyzed /\ relative_path(f) \in analyzed_files)
    /\ f.content.readable
    /\ ~ f.content.blank

\* file_scores, in the order of the traversal
file_scores(skip_analyzed) ==
    SelectSeq(tree, LAMBDA f : Candidate(f, skip_analyzed))

\* list.sort(key=lambda x: x['score']): stable
RECURSIVE sort_by_score(_)
sort_by_score(files) ==
    IF files = <<>> THEN <<>>
    ELSE LET n == Len(files)
             e == files[n]
             front == sort_by_score(SubSeq(files, 1, n - 1))
             k == Cardinality({i \in DOMAIN front :
                      calculate_file_score(front[i]) <= calculate_file_score(e)})
         IN  SubSeq(front, 1, k) \o <<e>> \o SubSeq(front, k + 1, n - 1)

\* Mutant: reverse=True is left out
sort_by_score_ascending(files) == sort_by_score(files)

\* list.sort(key=..., reverse=True)
sort_by_score_reverse(files) == Reverse(sort_by_score(Reverse(files)))

\* selected_files = file_scores[:max_files]
selected_files(max_files, skip_analyzed) ==
    Slice(sort_by_score_reverse(file_scores(skip_analyzed)), max_files)

\* The sample returned for a selected file; content: the lines kept
Sample(f) ==
    [path |-> relative_path(f),
     content |-> [id |-> f.content.id, lines |-> lines_read(f)],
     extension |-> f.file.suffix]

\* Mutant: the paths returned are recorded by the skip_analyzed calls only
Select_recording_when_skipping(max_files, skip_analyzed) ==
    \E selected \in {selected_files(max_files, skip_analyzed)} :
    \E out \in {[i \in DOMAIN selected |-> Sample(selected[i])]} :
    /\ analyzed_files' = IF skip_analyzed
                         THEN analyzed_files \cup {relative_path(selected[i]) : i \in DOMAIN selected}
                         ELSE analyzed_files
    /\ run' = IF skip_analyzed /\ run.only /\ (run.calls = 0 \/ run.max_files = max_files)
              THEN [max_files |-> max_files,
                    calls |-> IF run.calls < MaxTree + 2 THEN run.calls + 1 ELSE run.calls,
                    only |-> TRUE]
              ELSE NoRun
    /\ last' = [op |-> "select", max_files |-> max_files, skip |-> skip_analyzed,
                out |-> out,
                scores |-> [i \in DOMAIN selected |-> calculate_file_score(selected[i])],
                repeats |-> last.op = "select" /\ last.max_files = max_files
                            /\ last.skip = skip_analyzed,
                same_as_last |->
                    /\ last.op = "select"
                    /\ last.out = out]
    /\ UNCHANGED <<clock, ttl, fs, cache_file, snap, history_file, saves, read_only,
                   project_path, tree, writers>>

\* _collect_code_samples(max_files, skip_analyzed).  scores: the score of
\* each file returned; repeats: the call made just before had the same
\* arguments; same_as_last: it returned the same list
Select(max_files, skip_analyzed) ==
    \E selected \in {selected_files(max_files, skip_analyzed)} :
    \E out \in {[i \in DOMAIN selected |-> Sample(selected[i])]} :
    /\ analyzed_files' = analyzed_files \cup {relative_path(selected[i]) : i \in DOMAIN selected}
    /\ run' = IF skip_analyzed /\ run.only /\ (run.calls = 0 \/ run.max_files = max_files)
              THEN [max_files |-> max_files,
                    calls |-> IF run.calls < MaxTree + 2 THEN run.calls + 1 ELSE run.calls,
                    only |-> TRUE]
              ELSE NoRun
    /\ last' = [op |-> "select", max_files |-> max_files, skip |-> skip_analyzed,
                out |-> out,
                scores |-> [i \in DOMAIN selected |-> calculate_file_score(selected[i])],
                repeats |-> last.op = "select" /\ last.max_files = max_files
                            /\ last.skip = skip_analyzed,
                same_as_last |->
                    /\ last.op = "select"
                    /\ last.out = out]
    /\ UNCHANGED <<clock, ttl, fs, cache_file, snap, history_file, saves, read_only,
                   project_path, tree, writers>>

\* The trees of at most MaxTree files: no path twice
Trees ==
    {t \in UNION {[1..n -> [file : Names, content : Contents]] : n \in 0..MaxTree} :
        \A i, j \in DOMAIN t : i # j => t[i].file.path # t[j].file.path}

\* After AIAnalyzer.__init__ on some project
InitRank ==
    /\ clock = 0
    /\ ttl = 0
    /\ fs = [p \in Sources |-> Stat(0, 1)]
    /\ cache_file = AbsentFile
    /\ snap = [k \in Keys |-> NoSnap]
    /\ history_file = AbsentHistory
    /\ saves = 0
    /\ read_only = FALSE
    /\ tree \in Trees
    /\ analyzed_files = {}
    /\ run = FreshRun
    /\ project_path = ProjectRoot
    /\ writers = NoWriters
    /\ last = [op |-> "init"]

NextRank ==
    \E n \in 0..MaxTree, skip \in BOOLEAN : Select(n, skip)

\* One AIAnalyzer selecting files over an unchanged tree
SpecRank == InitRank /\ [][NextRank]_vars

\* Names for every combination of tiers, an excluded directory inside the
\* project and a suffix that is not a source suffix
ScoreNames ==
    {File(<<"app.py">>, ".py", {"app"}),
     File(<<"helper_util.py">>, ".py", {"helper", "util"}),
     File(<<"util.py">>, ".py", {"util"}),
     File(<<"lib", "util.py">>, ".py", {"util"}),
     File(<<"app_spec_test_helper_common_util.py">>, ".py",
          {"app", "spec", "test", "helper", "common", "util"}),
     File(<<"model.py">>, ".py", {"model"}),
     File(<<"main_app_model_view_test.py">>, ".py", {"main", "app", "model", "view", "test"}),
     File(<<"parser.py">>, ".py", {}),
     File(<<"build", "app.py">>, ".py", {"app"}),
     File(<<"app.md">>, ".md", {"app"})}

\* A file of n lines with one function in its first lines and, when it is
\* longer than 500 lines, two more after line 500
Lines(id, n, newline_end) ==
    Content(id, TRUE, n, newline_end, FALSE, 1, 0, 0, IF n > 500 THEN 2 ELSE 0)

\* Contents at the edges of the size bands and of the two read limits, with
\* and without a final newline
ScoreContents ==
    {Lines("49n", 49, TRUE), Lines("49", 49, FALSE),
     Lines("50n", 50, TRUE), Lines("50", 50, FALSE),
     Lines("500n", 500, TRUE), Lines("500", 500, FALSE),
     Lines("501n", 501, TRUE), Lines("501", 501, FALSE),
     Lines("1000n", 1000, TRUE), Lines("1000", 1000, FALSE),
     Lines("1001n", 1001, TRUE), Lines("1001", 1001, FALSE),
     Content("200n", TRUE, 200, TRUE, FALSE, 3, 1, 0, 0),
     Content("blank", TRUE, 2, TRUE, TRUE, 0, 0, 0, 0),
     Content("unreadable", FALSE, 3, TRUE, FALSE, 1, 0, 1, 0)}

\* Where the project may live: one of the directories above it may bear a
\* name of exclude_dirs
ProjectRoots == {ProjectRoot, <<"home", "user", "build", "project">>}

\* Trees of one file, and of two files with the same content
ScoreTrees ==
    {<<[file |-> n, content |-> c]>> : n \in ScoreNames, c \in ScoreContents}
    \cup {<<[file |-> n[1], content |-> c], [file |-> n[2], content |-> c]>> :
            n \in {m \in ScoreNames \X ScoreNames : m[1].path # m[2].path},
            c \in ScoreContents}

InitScore ==
    /\ clock = 0
    /\ ttl = 0
    /\ fs = [p \in Sources |-> Stat(0, 1)]
    /\ cache_file = AbsentFile
    /\ snap = [k \in Keys |-> NoSnap]
    /\ history_file = AbsentHistory
    /\ saves = 0
    /\ read_only = FALSE
    /\ project_path \in ProjectRoots
    /\ tree \in ScoreTrees
    /\ analyzed_files = {}
    /\ run = FreshRun
    /\ writers = NoWriters
    /\ last = [op |-> "init"]

NextScore ==
    \E n \in {1, 2}, skip \in BOOLEAN : Select(n, skip)

\* One AIAnalyzer scoring the files of a small tree
SpecScore == InitScore /\ [][NextScore]_vars

\* ------------------------------------------------- AIAnalyzer.analyze

\* max_files of the call analyze makes
AnalyzeMaxFiles == 50

\* What self.client.messages.create does: it returns a message with text, a
\* message whose text is blank, a message with no content, or raises
ApiOutcomes ==
    {"text", "blank_text", "no_content", "APIConnectionError", "APITimeoutError",
     "RateLimitError", "AuthenticationError", "APIStatusError", "APIError",
     "ValueError"}

\* The classes an exception is an instance of
Supers(e) ==
    CASE e = "APIConnectionError" -> {"APIConnectionError", "APIError", "Exception"}
      [] e = "APITimeoutError" ->
             {"APITimeoutError", "APIConnectionError", "APIError", "Exception"}
      [] e = "RateLimitError" ->
             {"RateLimitError", "APIStatusError", "APIError", "Exception"}
      [] e = "AuthenticationError" ->
             {"AuthenticationError", "APIStatusError", "APIError", "Exception"}
      [] e = "APIStatusError" -> {"APIStatusError", "APIError", "Exception"}
      [] e = "APIError" -> {"APIError", "Exception"}
      [] OTHER -> {e, "Exception"}

\* Mutant: the clauses for the errors of the API only
except_clauses_api_only ==
    <<[class |-> "APIConnectionError", error |-> "Failed to connect to Claude API"],
      [class |-> "RateLimitError", error |-> "API rate limit exceeded"],
      [class |-> "AuthenticationError", error |-> "Authentication failed"],
      [class |-> "APIError", error |-> "Claude API error"]>>

\* The except clauses of analyze, in their order, with the message of each
except_clauses ==
    <<[class |-> "APIConnectionError", error |-> "Failed to connect to Claude API"],
      [class |-> "RateLimitError", error |-> "API rate limit exceeded"],
      [class |-> "AuthenticationError", error |-> "Authentication failed"],
      [class |-> "APIError", error |-> "Claude API error"],
      [class |-> "Exception", error |-> "AI analysis failed"]>>

\* The summary of a result without issues, and the result the error paths
\* return
NoIssues == Summary(0, 0, 0, 0)
ErrorResult(mode, error) ==
    [mode |-> mode, error |-> error, issues |-> 0, summary |-> NoIssues]

\* What _parse_ai_response may make of a text that is not blank
ParsedSummaries == {NoIssues, Summary(1, 0, 1, 0), Summary(2, 1, 0, 1)}

\* _parse_ai_response: the result has no 'error'
parse_ai_response(mode, api, parsed) ==
    LET summary == IF api = "blank_text" THEN NoIssues ELSE parsed
    IN  [mode |-> mode, error |-> None, issues |-> summary.total_issues,
         summary |-> summary]

\* The first except clause an exception matches; 0 when there is none
Handler(e) ==
    LET matching == {i \in DOMAIN except_clauses : except_clauses[i].class \in Supers(e)}
    IN  IF matching = {} THEN 0
        ELSE CHOOSE i \in matching : \A j \in matching : i <= j

\* The body of analyze once the samples are collected: what it returns and
\* what it raises
analyze_outcome(mode, samples, api, parsed) ==
    IF samples = <<>>
    THEN [result |-> ErrorResult(mode, "No code files found to analyze"),
          raised |-> None, called |-> FALSE]
    ELSE IF api = "no_content"
    THEN [result |-> ErrorResult(mode, "Claude API returned empty response"),
          raised |-> None, called |-> TRUE]
    ELSE IF api \in {"text", "blank_text"}
    THEN [result |-> parse_ai_response(mode, api, parsed),
          raised |-> None, called |-> TRUE]
    ELSE IF Handler(api) = 0
    THEN [result |-> None, raised |-> api, called |-> TRUE]
    ELSE [result |-> ErrorResult(mode, except_clauses[Handler(api)].error),
          raised |-> None, called |-> TRUE]

\* Mutant: the paths of a call that failed are taken back
analyzed_after_analyze_rollback(selected, outcome) ==
    IF outcome.raised # None \/ outcome.result.error # None
    THEN analyzed_files
    ELSE analyzed_files \cup {relative_path(selected[i]) : i \in DOMAIN selected}

\* analyzed_files when analyze returns: _collect_code_samples added the
\* paths it selected, and no path of analyze takes them out
analyzed_after_analyze(selected, outcome) ==
    analyzed_files \cup {relative_path(selected[i]) : i \in DOMAIN selected}

\* AIAnalyzer.analyze().  follows_failed: the call made just before was an
\* analyze that called the API and returned an error result
AIAnalyze(mode, api, parsed) ==
    \E selected \in {selected_files(AnalyzeMaxFiles, TRUE)} :
    \E samples \in {[i \in DOMAIN selected |-> Sample(selected[i])]} :
    \E outcome \in {analyze_outcome(mode, samples, api, parsed)} :
        /\ analyzed_files' = analyzed_after_analyze(selected, outcome)
        /\ run' = NoRun
        /\ last' = [op |-> "ai_analyze", mode |-> mode,
                    api |-> IF outcome.called THEN api ELSE None,
                    samples |-> samples, before |-> analyzed_files,
                    called |-> outcome.called, result |-> outcome.result,
                    raised |-> outcome.raised,
                    follows_failed |-> /\ last.op = "ai_analyze"
                                       /\ last.called
                                       /\ last.raised = None
                                       /\ last.result.error # None]
        /\ UNCHANGED <<clock, ttl, fs, cache_file, snap, history_file, saves, read_only,
                       project_path, tree, writers>>

NextAI ==
    \/ \E mode \in Modes, parsed \in ParsedSummaries : AIAnalyze(mode, "text", parsed)
    \/ \E mode \in Modes, api \in ApiOutcomes \ {"text"} : AIAnalyze(mode, api, NoIssues)

\* One AIAnalyzer whose analyze is called again and again
SpecAI == InitRank /\ [][NextAI]_vars

\* ------------------------------------------- two writers on one store

\* A backing file between the open(..., 'w') of a writer and the end of its
\* json.dump: it exists and is empty, and reads as no data (JSONDecodeError).
\* A file on which two rewrites landed one over the other: the text of the
\* second followed by what is left of the longer first one, which is not JSON
TruncatedFile == [state |-> "truncated", data |-> EmptyMap, st_mtime |-> clock, st_size |-> 0]
MixedFile == [state |-> "corrupt", data |-> EmptyMap, st_mtime |-> clock, st_size |-> 1]
TruncatedHistory == [state |-> "truncated", data |-> <<>>]
MixedHistory == [state |-> "corrupt", data |-> <<>>]

\* cache_data[cache_key] = entry: what save_result hands to _save_cache
cache_rewrite(saw, cache_key, entry) == Put(saw, cache_key, entry)

\* Mutant: the entries read are dropped
history_rewrite_entry_only(saw, entry) == <<entry>>

\* history.append(entry): what save_result hands to _save_history
history_rewrite(saw, entry) == Append(saw, entry)

\* The other writer
Other(w) == CHOOSE o \in Writers : o # w

\* The writer is inside a save_result on the store
Busy(w, store) == writers[w].pc \in {"loaded", "open"} /\ writers[w].store = store

\* CacheManager.save_result(cache_key, result) up to the call of _save_cache:
\* the file is read and the entry is put into what was read.  raced: the
\* other writer had read the store too and neither had begun to write; lost:
\* what the other writer, having raced with this one, wrote before it
WLoadCache(w, cache_key, result) ==
    /\ writers[w].pc = "idle"
    /\ LoadError(cache_file) = None
    /\ writers' = [writers EXCEPT ![w] =
                      [pc |-> "loaded", store |-> "cache", saw |-> load_cache,
                       key |-> cache_key, entry |-> NewEntry(result, Omitted, clock),
                       data |-> cache_rewrite(load_cache, cache_key,
                                              NewEntry(result, Omitted, clock)),
                       raced |-> FALSE, lost |-> [any |-> FALSE]]]
    /\ last' = [op |-> "wload", w |-> w, store |-> "cache"]
    /\ UNCHANGED <<clock, ttl, fs, cache_file, snap, history_file, saves, read_only,
                   project_path, tree, analyzed_files, run>>

\* HistoryTracker.save_result(mode, static_results, None) up to the call of
\* _save_history
WLoadHistory(w, mode, static_results) ==
    /\ writers[w].pc = "idle"
    /\ LoadError(history_file) = None
    /\ writers' = [writers EXCEPT ![w] =
                      [pc |-> "loaded", store |-> "history", saw |-> load_history,
                       key |-> None,
                       entry |-> HistoryEntry(mode, static_results, AiNone, clock),
                       data |-> history_rewrite(load_history,
                                    HistoryEntry(mode, static_results, AiNone, clock)),
                       raced |-> FALSE, lost |-> [any |-> FALSE]]]
    /\ last' = [op |-> "wload", w |-> w, store |-> "history"]
    /\ UNCHANGED <<clock, ttl, fs, cache_file, snap, history_file, saves, read_only,
                   project_path, tree, analyzed_files, run>>

\* open(file, 'w') in _save_cache / _save_history: the file is emptied; it
\* raises when the store cannot be written and save_result ends there
WOpen(w) ==
    LET o == Other(w)
        store == writers[w].store
        both_read == writers[o].pc = "loaded" /\ writers[o].store = store
    IN  /\ writers[w].pc = "loaded"
        /\ IF WriteError # None
           THEN /\ writers' = [writers EXCEPT ![w] = [pc |-> "idle"]]
                /\ last' = [op |-> "wopen", w |-> w, store |-> store,
                            raised |-> WriteError]
                /\ UNCHANGED <<cache_file, snap, history_file, saves>>
           ELSE /\ writers' = [writers EXCEPT
                                 ![w] = [@ EXCEPT !.pc = "open",
                                                  !.raced = @ \/ both_read],
                                 ![o] = IF both_read THEN [@ EXCEPT !.raced = TRUE] ELSE @]
                /\ cache_file' = IF store = "cache" THEN TruncatedFile ELSE cache_file
                /\ snap' = IF store = "cache" THEN [k \in Keys |-> NoSnap] ELSE snap
                /\ history_file' = IF store = "history" THEN TruncatedHistory
                                   ELSE history_file
                /\ saves' = IF store = "history" THEN 0 ELSE saves
                /\ last' = [op |-> "wopen", w |-> w, store |-> store, raised |-> None]
        /\ UNCHANGED <<clock, ttl, fs, read_only, project_path, tree, analyzed_files, run>>

\* The end of json.dump and the close of the file: the text is written from
\* the start of the file.  When the other writer's text landed since this
\* writer's open, the file holds this writer's text, followed by the end of
\* the other's when that one is longer: mixed says which
WClose(w, mixed) ==
    LET store == writers[w].store
        file == IF store = "cache" THEN cache_file ELSE history_file
        overlapped == file.state # "truncated"
        o == Other(w)
    IN  /\ writers[w].pc = "open"
        /\ mixed => overlapped /\ ~ (file.state = "ok" /\ file.data = writers[w].data)
        /\ cache_file' = IF store # "cache" THEN cache_file
                         ELSE IF mixed THEN MixedFile
                         ELSE save_cache(writers[w].data, clock)
        /\ snap' = IF store = "cache" THEN [k \in Keys |-> NoSnap] ELSE snap
        /\ history_file' = IF store # "history" THEN history_file
                           ELSE IF mixed THEN MixedHistory
                           ELSE save_history(writers[w].data)
        /\ saves' = IF store = "history" THEN Len(history_file'.data) ELSE saves
        /\ writers' = [writers EXCEPT
                          ![w] = [pc |-> "idle"],
                          ![o] = IF Busy(o, store) /\ writers[o].raced /\ writers[w].raced
                                 THEN [@ EXCEPT !.lost = [any |-> TRUE,
                                                          key |-> writers[w].key,
                                                          entry |-> writers[w].entry]]
                                 ELSE @]
        /\ last' = [op |-> "wclose", w |-> w, store |-> store,
                    saw |-> writers[w].saw, key |-> writers[w].key,
                    entry |-> writers[w].entry,
                    overlapped |-> overlapped, mixed |-> mixed,
                    lost |-> writers[w].lost]
        /\ UNCHANGED <<clock, ttl, fs, read_only, project_path, tree, analyzed_files, run>>

\* The stores before the writers come: empty, or left by one earlier save
InitRace ==
    /\ clock = 0
    /\ ttl = 0
    /\ fs = [p \in Sources |-> Stat(0, 1)]
    /\ cache_file \in {AbsentFile}
          \cup {save_cache(Put(EmptyMap, k, [timestamp |-> 0, result |-> "r2"]), 0) :
                   k \in Keys}
    /\ snap = [k \in Keys |-> NoSnap]
    /\ history_file \in {AbsentHistory,
          save_history(<<HistoryEntry("personal", [summary |-> Summary(2, 0, 1, 0)],
                                      AiNone, 0)>>)}
    /\ saves = Len(history_file.data)
    /\ read_only = FALSE
    /\ project_path = ProjectRoot
    /\ tree = <<>>
    /\ analyzed_files = {}
    /\ run = NoRun
    /\ writers = NoWriters
    /\ last = [op |-> "init"]

NextRace ==
    \/ \E w \in Writers, k \in Keys : WLoadCache(w, k, "r1")
    \/ \E w \in Writers :
          /\ Len(load_history) < MaxHist
          /\ WLoadHistory(w, "deployment", [summary |-> Summary(1, 1, 0, 0)])
    \/ \E w \in Writers : WOpen(w)
    \/ \E w \in Writers, mixed \in BOOLEAN : WClose(w, mixed)

\* Two processes saving to the stores of one project with no lock
SpecRace == InitRace /\ [][NextRace]_vars

\* ------------------------------------------------------ AnalyzerEngine
\*
\* The pipeline of analyzer_engine.py.  cli/main.py and ui/app.py build a
\* new AnalyzerEngine for every run, so a run starts from a new
\* AnalysisProgress.  use_cache keeps its default, True.

Callbacks == {"absent", "works", "raises"}

\* validate_requirements: the error message, None when the requirements are met
validate_requirements(path_ok, skip_ai, key_ok) ==
    IF ~ path_ok THEN "Project path does not exist"
    ELSE IF ~ skip_ai /\ ~ key_ok THEN "ANTHROPIC_API_KEY"
    ELSE None

\* LanguageDetector.detect finds a language when the project has a source file
languages == {p \in DOMAIN fs : fs[p].exists}

\* The dictionary the static tools return, for each result the cache holds
StaticResults(result) ==
    IF result = "r1" THEN [summary |-> Summary(1, 1, 0, 0)]
    ELSE [summary |-> Summary(2, 0, 1, 1)]

\* StaticAnalyzer.analyze as Analyze above makes it: what it raises, what it
\* returns and whether the tools ran
static_analyze(mode, result) ==
    LET cached_result == get_cached_result(CacheKey(mode), rglob_files)
    IN  IF LoadError(cache_file) # None
        THEN [raised |-> LoadError(cache_file), out |-> None, ran |-> FALSE]
        ELSE IF cached_result # None
        THEN [raised |-> None, out |-> cached_result, ran |-> FALSE]
        ELSE [raised |-> WriteError,
              out |-> IF WriteError = None THEN result ELSE None, ran |-> TRUE]

\* Where the run stops: the stage and percentage of the last _update_progress
\* before it, the exception, the text put in progress.error and whether the
\* callback is called before the raise (lines 153 and 168).  An AIAnalyzer
\* that cannot be built raises; its analyze does not
NoFailure == [stage |-> "completed", percentage |-> 100, exc |-> None,
              error |-> None, direct |-> FALSE]

Failure(req_error, static, skip_ai, ai) ==
    IF req_error # None
    THEN [stage |-> "validation", percentage |-> 0, exc |-> "ValueError",
          error |-> req_error, direct |-> TRUE]
    ELSE IF languages = {}
    THEN [stage |-> "detection", percentage |-> 10, exc |-> "RuntimeError",
          error |-> "No analyzable code files found", direct |-> TRUE]
    ELSE IF static.raised # None
    THEN [stage |-> "static_analysis", percentage |-> 30, exc |-> static.raised,
          error |-> static.raised, direct |-> FALSE]
    ELSE IF ~ skip_ai /\ ai = "raises"
    THEN [stage |-> "ai_analysis", percentage |-> 70, exc |-> "KeyError",
          error |-> "KeyError", direct |-> FALSE]
    ELSE NoFailure

\* What leaves analyze when the run stopped with `failure`.  _update_progress
\* swallows what the callback raises; the calls of lines 153, 168 and 257 do
\* not, and what the callback raises there is what propagates
engine_raised(failure, callback) ==
    IF failure.exc = None THEN None
    ELSE IF callback = "raises" THEN "CallbackError"
    ELSE failure.exc

\* progress.error at the end: the message of the failure, or str(e) of what
\* the callback raised at line 153 or 168, which the handler of line 251 caught
engine_error(failure, callback) ==
    IF failure.exc = None THEN None
    ELSE IF callback = "raises" /\ failure.direct THEN "CallbackError"
    ELSE failure.error

\* What HistoryTracker.save_result raises
history_raised == IF LoadError(history_file) # None THEN LoadError(history_file) ELSE WriteError

\* AnalyzerEngine(project_path, mode, skip_ai, True, save_hist, callback).analyze()
EngineAnalyze(mode, callback, path_ok, key_ok, result, skip_ai, ai, save_hist) ==
    \E static \in {static_analyze(mode, result)} :
    \E failure \in {Failure(validate_requirements(path_ok, skip_ai, key_ok), static, skip_ai, ai)} :
    LET reached_static == failure.stage \notin {"validation", "detection"}
        ran == reached_static /\ static.ran
        written == ran /\ static.raised = None
        now == clock
        ai_results == IF skip_ai THEN AiNone ELSE [summary |-> Summary(1, 0, 0, 1)]
        saving == failure.exc = None /\ save_hist
        saved == saving /\ history_raised = None
    IN  /\ cache_file' = IF written
                         THEN save_result(CacheKey(mode), result, rglob_files, now)
                         ELSE cache_file
        /\ snap' = IF written
                   THEN SnapAfter(cache_file', {CacheKey(mode)}, result, rglob_files, now)
                   ELSE snap
        /\ history_file' = IF saved
                           THEN history_save_result(mode, StaticResults(static.out),
                                                    ai_results, now)
                           ELSE history_file
        /\ saves' = IF saved THEN saves + 1 ELSE saves
        /\ last' = [op |-> "engine", callback |-> callback, save_history |-> save_hist,
                    cause |-> failure.exc,
                    history_raised |-> IF saving THEN history_raised ELSE None,
                    returned |-> failure.exc = None,
                    raised |-> engine_raised(failure, callback),
                    progress |-> [stage |-> failure.stage,
                                  percentage |-> failure.percentage,
                                  completed |-> TRUE,
                                  error |-> engine_error(failure, callback)]]
        /\ UNCHANGED <<clock, ttl, fs, read_only, project_path, tree, analyzed_files, run,
                       writers>>

NextEngine ==
    \/ \E callback \in Callbacks, path_ok \in BOOLEAN, key_ok \in BOOLEAN,
          skip_ai \in BOOLEAN, ai \in {"returns", "raises"}, save_hist \in BOOLEAN :
          /\ Len(load_history) < MaxHist
          /\ EngineAnalyze("deployment", callback, path_ok, key_ok, "r1", skip_ai, ai,
                           save_hist)
    \/ \E p \in Sources : Remove(p)
    \/ Tick
    \/ \E ro \in BOOLEAN : Chmod(ro)
    \/ DamageCache(UndecodableFile)
    \/ DamageHistory(UndecodableHistory)

\* The pipeline on a project whose files and stores change between runs
SpecEngine == InitFaults /\ [][NextEngine]_vars

\* ============================================================== claims

\* An entry's age does not exceed the TTL
WithinTTL(entry) == clock - entry.timestamp <= ttl

\* The entry of the key was written by a save (and not removed since)
Saved(cache_key) == snap[cache_key].result # None

\* No file of that save's list has another modification time or size now
Unchanged(cache_key) ==
    \A p \in Range(snap[cache_key].files.list) : Tree[p] = snap[cache_key].stats[p]

\* C1: with a positive TTL, a get made right after save(K, V) with the same
\* key and the same file list returns V, whatever the store held before; so
\* does any get made less than a TTL after the save, the files being unchanged
C1_Case ==
    /\ last.op = "get" /\ ttl > 0
    /\ Saved(last.key) /\ last.files = snap[last.key].files
    /\ Unchanged(last.key)
    /\ clock - snap[last.key].at < ttl

C1_RoundTrip ==
    /\ (last.op = "get" /\ last.follows_save # None /\ ttl > 0)
            => last.out = last.follows_save
    /\ C1_Case => last.out = snap[last.key].result

\* C1 happens: a get right after a save made when the clock had advanced
C1_Witness ==
    /\ last.op = "get" /\ last.follows_save # None /\ ttl > 0
    /\ last.out = last.follows_save
    /\ snap[last.key].at > 0

\* C2: get returns the stored result iff the key is present, the entry's age
\* is at most the TTL and, when a file list is provided, its project hash is
\* the stored one; otherwise MISS
ClaimedGet(cache_key, project_files) ==
    IF /\ cache_key \in DOMAIN load_cache
       /\ WithinTTL(load_cache[cache_key])
       /\ (project_files.given =>
             compute_project_hash(project_files.list, Tree) = EntryHash(load_cache[cache_key]))
    THEN load_cache[cache_key].result
    ELSE None

C2_GetIff ==
    last.op = "get" => last.out = ClaimedGet(last.key, last.files)

\* C3: within the TTL, get(K, files) after save(K, V, files) returns V while
\* every listed file has the modification time and size the save saw, and
\* MISS once one of them has another modification time or size
C3_Case ==
    /\ last.op = "get"
    /\ Saved(last.key)
    /\ last.files.given
    /\ last.files = snap[last.key].files
    /\ clock - snap[last.key].at <= ttl

C3_ContentInvalidation ==
    C3_Case =>
        /\ Unchanged(last.key) => last.out = snap[last.key].result
        /\ ~Unchanged(last.key) => last.out = None

\* C3 happens: a listed file was rewritten after the save and the get missed
C3_Witness ==
    C3_Case /\ ~Unchanged(last.key) /\ last.out = None

\* C4: with TTL = 0, a get made right after a save of the same key returns
\* MISS, also when both read the same clock value
C4_ZeroTTL ==
    (last.op = "get" /\ last.follows_save # None /\ ttl = 0)
        => last.out = None

\* C5: a second StaticAnalyzer.analyze run made right after a first one in the
\* same mode, with no file modified in between, is a cache hit
C5_SecondRunHits ==
    (last.op = "analyze" /\ last.follows_analyze /\ ttl > 0) => last.hit

\* C6: save(K, ...) and invalidate(K) leave every other key's entry as it
\* was, still returned by get (called without files, and with the files it was
\* saved with); invalidate(K) removes K's entry and changes nothing when K is
\* absent
Others(cache_key) == Keys \ {cache_key}

SameEntry(k) ==
    /\ (k \in DOMAIN load_cache') = (k \in DOMAIN load_cache)
    /\ k \in DOMAIN load_cache => load_cache'[k] = load_cache[k]
    /\ \A f \in {Omitted, snap[k].files} :
          (get_cached_result(k, f))' = get_cached_result(k, f)

C6_KeyIsolation ==
    [][/\ last'.op \in {"save", "invalidate"} =>
            \A k \in Others(last'.key) : SameEntry(k)
       /\ last'.op = "invalidate" =>
            /\ last'.key \notin DOMAIN load_cache'
            /\ last'.key \notin DOMAIN load_cache => cache_file' = cache_file
      ]_vars

\* C6 happens: invalidate removed a stored key while another key is stored
C6_Witness ==
    /\ last.op = "invalidate" /\ last.had
    /\ \E k \in Others(last.key) : \E f \in FileArgs : get_cached_result(k, f) # None

\* C7: after invalidate() every get misses and stats reports no entry; a save
\* made next stores its entry in the emptied store, where get finds it
C7_InvalidateAll ==
    /\ [](last.op = "invalidate_all" =>
            /\ \A k \in Keys, f \in FileArgs : get_cached_result(k, f) = None
            /\ get_cache_stats.total_entries = 0
            /\ get_cache_stats.entries = {})
    /\ [][(last.op = "invalidate_all" /\ last'.op = "save") =>
            /\ DOMAIN load_cache' = {last'.key}
            /\ (get_cached_result(last.key, snap[last.key].files) = last.out)'
         ]_vars

\* C7 happens: invalidate() on a store that held both keys
C7_Witness ==
    last.op = "invalidate_all" /\ last.had = Cardinality(Keys)

\* C8: get and stats change nothing that is persisted; an expired entry that
\* get refuses stays in the store and stats reports it as expired
C8_PureReads ==
    [][last'.op \in {"get", "stats"} =>
            /\ cache_file' = cache_file
            /\ (last'.op = "get" /\ last'.key \in DOMAIN load_cache
                    /\ ~WithinTTL(load_cache[last'.key])) =>
                 /\ last'.out = None
                 /\ last'.key \in DOMAIN load_cache'
                 /\ \E e \in get_cache_stats'.entries :
                        e.key = last'.key /\ e.is_expired
      ]_vars

\* C8 happens: a get of an expired entry, which is still stored
C8_Witness ==
    /\ last.op = "get" /\ last.out = None
    /\ last.key \in DOMAIN load_cache /\ ~WithinTTL(load_cache[last.key])

\* C9: cleanupExpired removes exactly the entries older than the TTL, leaves
\* the others as they were and returns the number removed
Fresh == {k \in DOMAIN load_cache : WithinTTL(load_cache[k])}

Triples(files, st) ==
    {<<p, st[p].st_mtime, st[p].st_size>> : p \in {q \in Range(files) : st[q].exists}}

StatValues == {Stat(m, s) : m \in 0..MaxClock, s \in Sizes}

C10_ProjectHash ==
    last.op = "hash" =>
        /\ \A g \in ListsOver(DOMAIN fs) :
              Triples(g, Tree) = Triples(last.files, Tree)
                  => compute_project_hash(g, Tree) = last.out
        /\ \A p \in Range(last.files), m \in StatValues :
              (fs[p].exists /\ m # fs[p])
                  => compute_project_hash(last.files, [Tree EXCEPT ![p] = m]) # last.out

\* C10 happens: the hash of a list given in descending path order, one of
\* whose files has been rewritten
C10_Witness ==
    /\ last.op = "hash" /\ Len(last.files) = MaxHashPath
    /\ \A i \in 1..(Len(last.files) - 1) : last.files[i] > last.files[i + 1]
    /\ \A p \in Range(last.files) : fs[p].exists
    /\ \E p \in Range(last.files) : fs[p] # Stat(0, 1)

\* The backing file exists and cannot be read as JSON
Unusable(file) == file.state \in {"corrupt", "undecodable", "unreadable"}

NoData ==
    [total_runs |-> 0, trend |-> "no_data", current_issues |-> 0,
     previous_issues |-> 0, change |-> 0]

\* C11: a corrupt (unparseable) or unreadable backing file is read as an empty
\* store: the cache get returns MISS, get_history returns the empty list and
\* get_trend_data the no-data result, and none of them raises
C11_CorruptReadsAsEmpty ==
    /\ (last.op = "get" /\ Unusable(cache_file))
          => (last.raised = None /\ last.out = None)
    /\ (last.op = "hget" /\ Unusable(history_file))
          => (last.raised = None /\ last.out = <<>>)
    /\ (last.op = "htrend" /\ Unusable(history_file))
          => (last.raised = None /\ last.out = NoData)

\* C12: while the stores cannot be written, a cache save, a cache invalidate
\* of a stored key, a cleanup that has expired entries to remove and a history
\* save all end with an exception, never with a normal return; so does an
\* invalidate of the whole cache that leaves the file in place
C12_WriteFailurePropagates ==
    read_only =>
        /\ last.op = "save" => last.raised # None
        /\ (last.op = "invalidate" /\ last.had) => last.raised # None
        /\ (last.op = "cleanup" /\ last.expired > 0) => last.raised # None
        /\ last.op = "hsave" => last.raised # None
        /\ (last.op = "invalidate_all" /\ cache_file.state # "absent")
              => last.raised # None

C12_Witness ==
    /\ read_only
    /\ last.op = "cleanup"
    /\ last.expired > 0
    /\ last.raised = "PermissionError"
    /\ history_file.state = "ok"

\* C13: every save_result leaves the stored history equal to the previous one
\* with exactly one entry appended, so after n saves without a clear it holds
\* n entries; no other call changes it and only clear_history shortens it
C13_AppendOnly ==
    /\ [](saves = Len(load_history))
    /\ [][/\ (last'.op = "hsave" /\ last'.raised = None)
                => load_history' = Append(load_history, last'.entry)
          /\ last'.op \notin {"hsave", "hclear"} => load_history' = load_history
          /\ Len(load_history') < Len(load_history) => last'.op = "hclear"]_vars

C13_Witness ==
    /\ last.op = "hsave"
    /\ last.raised = None
    /\ saves = MaxHist
    /\ load_history[1] # load_history[MaxHist]

\* The by_severity counts of the results passed in add up to their total_issues
Consistent(results) ==
    LET summary == GetOr(results, "summary", EmptyMap)
        by_severity == GetOr(summary, "by_severity", EmptyMap)
    IN  GetOr(by_severity, "critical", 0) + GetOr(by_severity, "warning", 0)
          + GetOr(by_severity, "info", 0) = GetOr(summary, "total_issues", 0)

\* The counts of a severity record added up
SeveritySum(by_severity) ==
    by_severity.critical + by_severity.warning + by_severity.info

\* One severity count of the results passed in
SeverityOf(results, field) ==
    GetOr(GetOr(GetOr(results, "summary", EmptyMap), "by_severity", EmptyMap), field, 0)

\* C14 as stated: in every stored entry the three by_severity counts add up
\* to total_issues
C14_SeveritySum ==
    \A i \in DOMAIN load_history :
        SeveritySum(load_history[i].summary.by_severity)
            = load_history[i].summary.total_issues

\* C14 amended: by_severity is the per-field sum of the static and (if given)
\* AI counts and total_issues is the sum of the two total_issues passed in; the
\* counts add up to total_issues whenever they do in each summary passed in
C14_SeveritySumOfConsistent ==
    last.op = "hsave" =>
        LET e == last.entry.summary
            ai == IF AiGiven(last.ai) THEN last.ai ELSE EmptyMap
        IN  /\ \A f \in {"critical", "warning", "info"} :
                  e.by_severity[f] = SeverityOf(last.static, f) + SeverityOf(ai, f)
            /\ e.total_issues = TotalIssues(last.static) + TotalIssues(ai)
            /\ (Consistent(last.static) /\ Consistent(ai))
                  => SeveritySum(e.by_severity) = e.total_issues
            /\ last.raised = None => load_history[Len(load_history)] = last.entry

C14_Witness ==
    /\ last.op = "hsave"
    /\ last.raised = None
    /\ AiGiven(last.ai)
    /\ Consistent(last.static) /\ Consistent(last.ai)
    /\ last.entry.summary.total_issues = 2
    /\ last.entry.summary.by_severity.info = 1

\* C15: with n >= 1 entries get_trend_data compares the entry saved last with
\* the one saved before it (with itself when n = 1): change is the difference
\* of their total_issues and trend is 'improving' iff change < 0, 'declining'
\* iff change > 0, 'stable' iff change = 0
C15_Trend ==
    (last.op = "htrend" /\ last.raised = None /\ load_history # <<>>) =>
        LET n == Len(load_history)
            current == load_history[n].summary.total_issues
            previous == IF n > 1 THEN load_history[n - 1].summary.total_issues
                        ELSE current
        IN  /\ last.out.total_runs = n
            /\ last.out.current_issues = current
            /\ last.out.previous_issues = previous
            /\ last.out.change = current - previous
            /\ (last.out.trend = "improving") = (current < previous)
            /\ (last.out.trend = "declining") = (current > previous)
            /\ (last.out.trend = "stable") = (current = previous)
            /\ n = 1 => (last.out.change = 0 /\ last.out.trend = "stable")

C15_Witness ==
    /\ last.op = "htrend"
    /\ Len(load_history) = MaxHist
    /\ last.out.trend = "improving"
    /\ last.out.change = -1

\* C16: while the history holds no entry, never saved or cleared after saves,
\* get_history returns the empty list and get_trend_data returns total_runs 0,
\* trend 'no_data' and zero counts, and neither raises
C16_EmptyHistory ==
    /\ (last.op = "hget" /\ (saves = 0 \/ last.after_clear))
          => (last.raised = None /\ last.out = <<>>)
    /\ (last.op = "htrend" /\ (saves = 0 \/ last.after_clear))
          => (last.raised = None /\ last.out = NoData)

C16_Witness ==
    /\ last.op = "htrend"
    /\ last.after_clear
    /\ last.out.trend = "no_data"

\* What the timeline keeps of an entry
TimelineItem(entry) ==
    [timestamp |-> entry.timestamp,
     total_issues |-> entry.summary.total_issues,
     critical |-> entry.summary.by_severity.critical,
     warning |-> entry.summary.by_severity.warning,
     info |-> entry.summary.by_severity.info]

\* C17: get_history returns the entries newest first and, given a limit L, the
\* L most recent ones and never more than L; the timeline of get_trend_data is
\* the unlimited get_history order reversed; the stored history is unchanged
C17_HistoryOrder ==
    (last.op = "hget" /\ last.raised = None) =>
        LET out == last.out
            newest_first == Reverse(load_history)
            unlimited == get_history(NoLimit)
        IN  /\ \A i, j \in DOMAIN out : i < j => out[i].timestamp >= out[j].timestamp
            /\ last.limit.given =>
                  /\ Len(out) <= last.limit.n
                  /\ out = SubSeq(newest_first, 1, Len(out))
                  /\ Len(out) < last.limit.n => Len(out) = Len(load_history)
            /\ ~last.limit.given => out = newest_first
            /\ load_history # <<>> =>
                  get_trend_data.timeline
                      = Reverse([i \in DOMAIN unlimited |-> TimelineItem(unlimited[i])])

\* The paths of the samples a call returned
Paths(out) == {out[i].path : i \in DOMAIN out}

\* The files of the tree that pass every test but the one on the analyzed set
Eligible == {i \in DOMAIN tree : Candidate(tree[i], FALSE)}
EligiblePaths == {relative_path(tree[i]) : i \in Eligible}

Min(a, b) == IF a < b THEN a ELSE b

\* C18: over calls _collect_code_samples(N, skip_analyzed=True), N >= 1, on one
\* analyzer, no call returns a path an earlier call returned, each call
\* returns N files not returned before while there are that many, so every
\* eligible file is returned exactly once, and from call ceil(eligible/N) + 1
\* on the list returned is empty
C18_Exhaustion ==
    /\ [](LET n == run.max_files
              e == Cardinality(Eligible)
          IN  (run.only /\ run.calls >= 1 /\ n >= 1) =>
                 /\ analyzed_files \subseteq EligiblePaths
                 /\ Cardinality(analyzed_files) = Min(run.calls * n, e)
                 /\ Cardinality(Paths(last.out)) = Len(last.out)
                 /\ run.calls * n >= e => analyzed_files = EligiblePaths
                 /\ (run.calls - 1) * n >= e => last.out = <<>>)
    /\ [][(run'.only /\ run'.max_files >= 1)
             => (Paths(last.out))' \cap analyzed_files = {}]_vars

C18_Witness ==
    /\ run.only
    /\ run.max_files = 1
    /\ run.calls = 3
    /\ Cardinality(Eligible) = 2
    /\ Len(tree) = MaxTree
    /\ analyzed_files = EligiblePaths
    /\ last.out = <<>>

\* The index in the traversal of the file with a path
IndexOf(path) == CHOOSE i \in DOMAIN tree : relative_path(tree[i]) = path

\* The files the last call scored: analyzed_files held, before it, the paths
\* it holds now less those a skip_analyzed call returned
Considered ==
    {i \in Eligible :
        last.skip => relative_path(tree[i]) \notin analyzed_files \ Paths(last.out)}

\* The list returned is at most max_files long, by descending score with ties
\* in traversal order, and no file scored and left out beats a returned one
TopFiles ==
    LET out == last.out
        at(i) == IndexOf(out[i].path)
        score(i) == calculate_file_score(tree[at(i)])
    IN  /\ Len(out) <= last.max_files
        /\ Paths(out) \subseteq {relative_path(tree[i]) : i \in Considered}
        /\ Len(out) = Min(last.max_files, Cardinality(Considered))
        /\ \A i, j \in DOMAIN out :
              i < j => \/ score(i) > score(j)
                       \/ score(i) = score(j) /\ at(i) < at(j)
        /\ \A k \in Considered :
              relative_path(tree[k]) \notin Paths(out) =>
                  \A i \in DOMAIN out : calculate_file_score(tree[k]) <= score(i)

ServerPath == <<"src", "server.py">>
UtilPath == <<"src", "deep", "nested", "folder", "util.py">>

\* The first call on a tree of src/server.py and src/deep/nested/folder/util.py,
\* both eligible, with max_files=1
ScenarioTop1 ==
    /\ last.op = "select"
    /\ last.max_files = 1
    /\ analyzed_files = Paths(last.out)
    /\ EligiblePaths = {ServerPath, UtilPath}
    /\ Len(tree) = 2

\* C19 as stated: the list returned is the top max_files by score, and on the
\* tree of src/server.py and src/deep/nested/folder/util.py the call with
\* max_files=1 returns src/server.py
C19_TopFiles ==
    /\ last.op = "select" => TopFiles
    /\ ScenarioTop1 => Paths(last.out) = {ServerPath}

\* C19 amended: the list returned is the top max_files by score, and on that
\* tree the call with max_files=1 returns src/server.py when the two files
\* have the same content
C19_TopFilesSameContent ==
    /\ last.op = "select" => TopFiles
    /\ (ScenarioTop1 /\ tree[1].content = tree[2].content)
          => Paths(last.out) = {ServerPath}

C19_Witness ==
    /\ ScenarioTop1
    /\ tree[1].file.path = UtilPath
    /\ tree[1].content = tree[2].content
    /\ tree[1].content.id = "dense"
    /\ Paths(last.out) = {ServerPath}

\* C20: a call with skip_analyzed=False returns the list the call made just
\* before with the same arguments returned, although that call recorded its
\* paths in analyzed_files
C20_Deterministic ==
    (last.op = "select" /\ ~ last.skip /\ last.repeats) => last.same_as_last

C20_Witness ==
    /\ last.op = "select"
    /\ ~ last.skip
    /\ last.repeats
    /\ last.same_as_last
    /\ Len(last.out) = MaxTree
    /\ Paths(last.out) \subseteq analyzed_files

\* The directories of the project a file resides under
DirsOf(f) == {f.file.path[i] : i \in 1..(Len(f.file.path) - 1)}

\* The files of the tree that meet the four conditions of eligibility when
\* the last call was made; content that is white space only counts as empty,
\* and analyzed_files held, before a skip_analyzed call, the paths it holds
\* now less those the call returned
MeetsConditions ==
    {i \in DOMAIN tree :
        /\ tree[i].file.suffix \in file_extensions
        /\ DirsOf(tree[i]) \cap exclude_dirs = {}
        /\ tree[i].content.readable /\ ~ tree[i].content.blank
        /\ last.skip => relative_path(tree[i]) \notin analyzed_files \ Paths(last.out)}

\* C21: a call returns only files with a source suffix, under no directory of
\* the project named in exclude_dirs, with content that is not empty and, when
\* skip_analyzed, not in analyzed_files; and every such file is a candidate:
\* the call returns max_files of them, or all of them when they are fewer
C21_Eligibility ==
    last.op = "select" =>
        /\ Paths(last.out) \subseteq {relative_path(tree[i]) : i \in MeetsConditions}
        /\ Len(last.out) = Min(last.max_files, Cardinality(MeetsConditions))

\* The file of the tree a returned sample was read from
FileOf(sample) == tree[IndexOf(sample.path)]

\* The part of a returned file's score that comes from its name
NameSignal(i) ==
    LET f == FileOf(last.out[i])
    IN  last.scores[i] - depth_score(f) - complexity_score(f) - size_score(f)

\* C22: the name contributes +100 if a high pattern occurs in it, +50 if a
\* medium pattern does and -30 if a low pattern does, each tier once however
\* many of its patterns occur
C22_TiersOnce ==
    last.op = "select" =>
        \A i \in DOMAIN last.out :
            LET occurs == FileOf(last.out[i]).file.occurs
            IN  NameSignal(i) =
                    (IF occurs \cap high_priority_patterns # {} THEN 100 ELSE 0)
                    + (IF occurs \cap medium_priority_patterns # {} THEN 50 ELSE 0)
                    + (IF occurs \cap low_priority_patterns # {} THEN -30 ELSE 0)

\* Two returned files at the same depth with the same content, the first with
\* a high pattern in its name, the second with low patterns only
TierPair(i, j) ==
    LET f == FileOf(last.out[i])
        g == FileOf(last.out[j])
    IN  /\ Len(f.file.path) = Len(g.file.path)
        /\ f.content = g.content
        /\ is_high_priority(f)
        /\ g.file.occurs # {}
        /\ g.file.occurs \subseteq low_priority_patterns

\* C23: of two files at the same depth with the same content, one with a high
\* pattern in its name scores strictly more than one with low patterns only
C23_TierOrdering ==
    last.op = "select" =>
        \A i, j \in DOMAIN last.out :
            TierPair(i, j) => last.scores[i] > last.scores[j]

\* The part of a returned file's score that comes from its size
SizeSignal(i) ==
    LET f == FileOf(last.out[i])
    IN  last.scores[i] - name_score(f) - depth_score(f) - complexity_score(f)

\* The size signal of a file of n lines whose band ends at top
Band(n, top) == IF n < 50 THEN 0 ELSE IF n <= top THEN 20 ELSE 10

\* C24: a file of n lines gets +20 when 50 <= n <= 500, +10 when n > 500 and
\* 0 when n < 50, the bound 500 being 1000 for a name of the high tier,
\* whether or not the file ends with a newline
C24_SizeBands ==
    last.op = "select" =>
        \A i \in DOMAIN last.out :
            LET f == FileOf(last.out[i])
            IN  SizeSignal(i) =
                    Band(f.content.nlines, IF is_high_priority(f) THEN 1000 ELSE 500)

\* The score of the leading lines of a file: kept is their number
ScoreOfLines(f, kept) ==
    LET n == IF kept < f.content.nlines \/ f.content.newline_end
             THEN kept + 1 ELSE kept
        top == IF is_high_priority(f) THEN 1000 ELSE 500
    IN  name_score(f) + depth_score(f)
        + (f.content.funcs + IF kept > 500 THEN f.content.funcs_late ELSE 0) * 5
        + f.content.classes * 10 + f.content.imports * 3
        + Band(n, top)

\* C25: the content returned for a file is its leading lines, at most 500 of
\* them, or 1000 when a high pattern occurs in its name, and the score of the
\* file is that of the lines returned
C25_Truncation ==
    last.op = "select" =>
        \A i \in DOMAIN last.out :
            LET f == FileOf(last.out[i])
                kept == last.out[i].content.lines
                limit == IF is_high_priority(f) THEN 1000 ELSE 500
            IN  /\ last.out[i].content.id = f.content.id
                /\ kept <= limit
                /\ kept = Min(f.content.nlines, limit)
                /\ last.scores[i] = ScoreOfLines(f, kept)

C25_Witness ==
    /\ last.op = "select"
    /\ Len(last.out) = 2
    /\ FileOf(last.out[1]).content.nlines = 1001
    /\ last.out[1].content.lines = 1000
    /\ last.out[2].content.lines = 500
    /\ FileOf(last.out[2]).content.funcs_late > 0

\* C28: analyzed_files only grows: every call, whatever skip_analyzed, leaves
\* it equal to what it was united with the paths the call returns, so the
\* paths returned are in it and none was removed
C28_AnalyzedGrows ==
    /\ [](last.op = "select" => Paths(last.out) \subseteq analyzed_files)
    /\ [][/\ analyzed_files \subseteq analyzed_files'
          /\ last'.op = "select" =>
                analyzed_files' = analyzed_files \cup Paths(last'.out)]_vars

\* A call with skip_analyzed=False, made again, returned paths of the set and
\* left in it a path it did not return
C28_Witness ==
    /\ last.op = "select"
    /\ ~ last.skip
    /\ last.repeats
    /\ last.out # <<>>
    /\ Paths(last.out) \subseteq analyzed_files
    /\ ~ (analyzed_files \subseteq Paths(last.out))

\* The API outcomes that are failures of the call
ApiFailures == ApiOutcomes \ {"text", "blank_text", "no_content"}

\* C26: analyze never raises; when the API call fails or the message has no
\* content it returns a result with an error message, no issue and a summary
\* of zero issues in every severity; when there is no file to analyze it
\* returns the error 'No code files found to analyze' without calling the API
C26_NeverRaises ==
    last.op = "ai_analyze" =>
        /\ last.raised = None
        /\ (last.called /\ last.api \in ApiFailures \cup {"no_content"}) =>
              /\ last.result.error # None
              /\ last.result.issues = 0
              /\ last.result.summary = Summary(0, 0, 0, 0)
              /\ last.result.mode = last.mode
        /\ last.samples = <<>> =>
              /\ ~ last.called
              /\ last.result = ErrorResult(last.mode, "No code files found to analyze")
        /\ last.samples # <<>> => last.called

C26_Witness ==
    /\ last.op = "ai_analyze"
    /\ last.called
    /\ last.api = "ValueError"
    /\ last.raised = None
    /\ last.result.error = "AI analysis failed"

\* C29: the files analyze selected are in analyzed_files whether the API call
\* failed or not; the analyze that follows a failed one skips them, and, the
\* project having at most 50 eligible files, finds no file and returns the
\* error 'No code files found to analyze' without calling the API
C29_FailedCallKeepsFiles ==
    last.op = "ai_analyze" =>
        /\ Paths(last.samples) \subseteq analyzed_files
        /\ last.before \subseteq analyzed_files
        /\ last.follows_failed =>
              /\ last.before # {}
              /\ Paths(last.samples) \cap last.before = {}
              /\ Cardinality(Eligible) <= AnalyzeMaxFiles =>
                    /\ ~ last.called
                    /\ last.result = ErrorResult(last.mode, "No code files found to analyze")

C29_Witness ==
    /\ last.op = "ai_analyze"
    /\ last.follows_failed
    /\ Cardinality(Eligible) = MaxTree
    /\ analyzed_files = EligiblePaths
    /\ ~ last.called
    /\ last.result.error = "No code files found to analyze"

\* The store holds what the writer that closed last handed to its rewrite:
\* what it had read, with its entry
HoldsLastRewrite ==
    IF last.store = "cache"
    THEN /\ cache_file.state = "ok"
         /\ load_cache = Put(last.saw, last.key, last.entry)
    ELSE /\ history_file.state = "ok"
         /\ load_history = Append(last.saw, last.entry)

\* The entry of the writer that raced with the one that closed last is not
\* in the store: a key it alone wrote is not there, and the history has at
\* most one entry more than the two writers read
OtherEntryAbsent ==
    IF last.store = "cache"
    THEN (last.lost.key # last.key /\ last.lost.key \notin DOMAIN last.saw)
            => last.lost.key \notin DOMAIN load_cache
    ELSE Len(load_history) <= Len(last.saw) + 1

\* C27 as stated: the store is the one rewritten last, and when both writers
\* read before either wrote, the entry of the other writer is absent from it
C27_LastWriteWins ==
    last.op = "wclose" =>
        /\ HoldsLastRewrite
        /\ last.lost.any => OtherEntryAbsent

\* C27 amended: when no other rewrite ended while the last one was under way
\* the store is the one rewritten last, and when both writers read before
\* either wrote, the entry of the other writer is absent from it
C27_LastWriteWinsUnlessOverlap ==
    last.op = "wclose" =>
        /\ ~ last.overlapped => HoldsLastRewrite
        /\ last.lost.any => OtherEntryAbsent

C27_Witness ==
    /\ last.op = "wclose"
    /\ last.store = "cache"
    /\ ~ last.overlapped
    /\ last.lost.any
    /\ last.lost.key # last.key
    /\ DOMAIN load_cache = {last.key}
    /\ writers = NoWriters

\* C30: a run whose history save fails still returns its result and ends at
\* stage completed, 100%, completed and without error; a run that fails in
\* validation, for want of languages, in the static or in the AI analysis
\* ends with progress.error set, completed, and that exception raised
C30_OnlyHistoryFailureIsSwallowed ==
    last.op = "engine" =>
        /\ (last.save_history /\ last.history_raised # None) =>
              /\ last.returned
              /\ last.raised = None
              /\ last.progress = [stage |-> "completed", percentage |-> 100,
                                  completed |-> TRUE, error |-> None]
        /\ last.cause # None =>
              /\ last.progress.error # None
              /\ last.progress.completed
              /\ ~ last.returned
              /\ last.raised = last.cause

====
